---- MODULE Spec2Model ----
(***************************************************************************)
(* A state-machine model of the echo middleware package:                   *)
(*   ZapLogger            (echo_zap.go)  request logging, body tee,        *)
(*                                       detached mongo persistence        *)
(*   OtelLoggerMiddleware (model.go)     request id -> span + context      *)
(*   LoggerWithContext    (model.go)     ids + logger -> echo/Go context   *)
(* One request is a small process that walks down the middleware chain,    *)
(* runs the handler, and walks back up; the persistence goroutine of a     *)
(* request is a second process that interleaves with it.                   *)
(*                                                                         *)
(* Not modelled: wall-clock fields (latency, time, timestamp) and the      *)
(* request metadata that ZapLogger only copies into the record (method,    *)
(* uri, host, remote_ip, header dump, query, form, param, user_agent,      *)
(* referer, request_proto).                                                *)
(***************************************************************************)
EXTENDS Integers, Sequences, FiniteSets, TLC

\* ------------------------------------------------------------------ bounds
MaxBodyLen == 2        \* longest inbound request body, in bytes
MaxWrites  == 2        \* most Write calls one request makes on its response
MaxDumpLen == 3        \* longest body handed to BodyDump, in bytes
MaxFields  == 2        \* most fields in one direct call of zapFieldsToMap

\* --------------------------------------------------------------- universes
Reqs == {"r1", "r2"}                       \* request identities (ghost tags)
\* Inbound bodies: the prefixes of "abab...", so that neighbouring bytes
\* differ and a reordering, a loss or a duplication shows.
Bodies == {[i \in 1..n |-> IF i % 2 = 1 THEN "a" ELSE "b"] : n \in 0..MaxBodyLen}
\* The handler's k-th Write call: one byte, then two, and so on in turn,
\* so that calls differ and a short write can fall inside a call.
Chunk(k) == IF k % 2 = 1 THEN <<"a">> ELSE <<"b", "a">>
ReadErrs == {"read failed", "unexpected EOF"}
HandlerErrs == {"handler failed"}
Statuses == {100, 200, 299, 300, 399, 400, 499, 500, 599}
ErrStatuses == {404, 500}                  \* what an error handler may send
Paths == {"/healthz", "/test/:id"}
ZeroTraceID == "00000000000000000000000000000000"
ZeroSpanID == "0000000000000000"
NoSpan == [tid |-> ZeroTraceID, sid |-> ZeroSpanID]
Spans == {NoSpan, [tid |-> "0102", sid |-> "0807"],
          [tid |-> "0102", sid |-> ZeroSpanID]}
HeaderValues == {<<>>, <<"">>, <<"id1">>, <<"id2", "id1">>}

VARIABLES
  chain,       \* the middleware chain, outermost first (fixed by Init)
  collection,  \* ZapLogger's collection argument: "nil" or "coll"
  environment, \* viper's ENVIRONMENT, "" when unset (fixed by Init)
  req,         \* per request: inputs, position, request/response state
  task,        \* per request: the detached persistence goroutine
  log,         \* the zap sink: the entries written so far, in order
  mongo        \* the documents the store accepted, in order

vars == <<chain, collection, environment, req, task, log, mongo>>

\* ------------------------------------------------------- context values
Absent == [t |-> "none"]
Str(s) == [t |-> "string", v |-> s]
\* zap.S(): the process-wide logger, which carries no identifier.
GlobalLogger == [t |-> "logger", v |-> [global |-> TRUE]]
CtxKeys == {"logger", "trace_id", "span_id", "request_id"}
EmptyCtx == [k \in CtxKeys |-> Absent]

\* http.Header.Get: the first value stored under the key, "" when none.
HeaderGet(h) == IF Len(h) = 0 THEN "" ELSE h[1]

\* http.Header.Set: replaces whatever was stored by the single value.
HeaderSet(v) == <<v>>

\* trace.SpanContext.IsValid: a non-zero trace id and a non-zero span id.
IsValid(sc) == sc.tid # ZeroTraceID /\ sc.sid # ZeroSpanID

\* ------------------------------------------------------------ zap fields
\* zapcore.Field as zap.String and zap.Int build it.
zapString(key, s) ==
  [Key |-> key, Type |-> "StringType", Integer |-> 0, String |-> s,
   Interface |-> "nil"]
zapInt(key, n) ==
  [Key |-> key, Type |-> "Int64Type", Integer |-> n, String |-> "",
   Interface |-> "nil"]

\* A 64-bit number too large for plain arithmetic here: hi * 2^63 + low, hi
\* being -1, 0 or 1.  An uint64 has hi 0 or 1; int64(v) of an uint64 v with
\* hi 1 is v - 2^64, that is hi -1 with the same low.
Num(hi, low) == [hi |-> hi, low |-> low]
ToInt64(v) == Num(IF v.hi = 1 THEN -1 ELSE v.hi, v.low)
ToUint64(i) == Num(IF i.hi = -1 THEN 1 ELSE i.hi, i.low)

\* zap.Uint64: Integer is int64(val).
zapUint64(key, val) ==
  [Key |-> key, Type |-> "Uint64Type", Integer |-> ToInt64(val),
   String |-> "", Interface |-> "nil"]

\* math.Float64bits: the IEEE 754 pattern of the value, read as an integer
\* (a number that is not the value, but for 0.0).
Float64bits(v) == [bitsOf |-> v]

\* zap.Float64: Integer is int64(math.Float64bits(val)).  The float given
\* stays with the field under Interface for the properties' sake only (zap
\* leaves Interface nil).
zapFloat64(key, val) ==
  [Key |-> key, Type |-> "Float64Type", Integer |-> Float64bits(val),
   String |-> "", Interface |-> val]

\* zap.Bool: Integer is 1 or 0.
zapBool(key, b) ==
  [Key |-> key, Type |-> "BoolType", Integer |-> IF b THEN 1 ELSE 0,
   String |-> "", Interface |-> "nil"]

\* zap.Time: Integer is val.UnixNano().
zapTime(key, nanos) ==
  [Key |-> key, Type |-> "TimeType", Integer |-> nanos, String |-> "",
   Interface |-> "nil"]

\* zap.Duration: Integer is the count of nanoseconds.
zapDuration(key, nanos) ==
  [Key |-> key, Type |-> "DurationType", Integer |-> nanos, String |-> "",
   Interface |-> "nil"]

\* zap.Reflect: the value itself under Interface.
zapReflect(key, x) ==
  [Key |-> key, Type |-> "ReflectType", Integer |-> 0, String |-> "",
   Interface |-> x]

\* A field literal of no known type: zapcore.Field{Key: .., String: ..}.
zapUnknown(key, s) ==
  [Key |-> key, Type |-> "UnknownType", Integer |-> 0, String |-> s,
   Interface |-> "nil"]

\* time.Unix(0, nanos).Format(time.RFC3339): the instant cut to the second.
NanosPerSecond == 1000000000
FormatRFC3339(nanos) == [layout |-> "RFC3339", sec |-> nanos \div NanosPerSecond]

\* float64(i) of an int64 i: the float whose value is the integer's.
Float64OfInt(i) == [float64 |-> i]

IntegerTypes == {"Int64Type", "Int32Type", "Int16Type", "Int8Type",
                 "Uint64Type", "Uint32Type", "Uint16Type", "Uint8Type"}

FloatTypes == {"Float64Type", "Float32Type"}

\* The switch of zapFieldsToMap: what a field is stored as, with the Go type
\* of the value stored.
zapFieldConverted(f) ==
  IF f.Type = "StringType" THEN [kind |-> "string", value |-> f.String]
  ELSE IF f.Type \in IntegerTypes
    THEN [kind |-> "int64", value |-> f.Integer]
  ELSE IF f.Type \in FloatTypes
    THEN [kind |-> "float64", value |-> Float64OfInt(f.Integer)]
  ELSE IF f.Type = "BoolType" THEN [kind |-> "bool", value |-> f.Integer # 0]
  ELSE IF f.Type = "TimeType"
    THEN [kind |-> "string", value |-> FormatRFC3339(f.Integer)]
  ELSE IF f.Type = "DurationType"
    THEN [kind |-> "int64", value |-> f.Integer]
  ELSE IF f.Type = "ReflectType"
    THEN [kind |-> "interface", value |-> f.Interface]
  ELSE [kind |-> "string", value |-> f.String]

\* One field's converted value.
zapFieldValue(f) == zapFieldConverted(f).value

RECURSIVE zapFieldsToMapFrom(_, _)
zapFieldsToMapFrom(fields, acc) ==
  IF fields = <<>> THEN acc
  ELSE LET f == Head(fields)
           rest == [k \in DOMAIN acc \ {f.Key} |-> acc[k]]
       IN zapFieldsToMapFrom(Tail(fields),
            [k \in DOMAIN rest \cup {f.Key} |->
               IF k = f.Key THEN zapFieldValue(f) ELSE rest[k]])

\* Mutant of zapFieldsToMap: the loop stops one field short.
zapFieldsToMap_OneShort(fields) ==
  zapFieldsToMapFrom(SubSeq(fields, 1, Len(fields) - 1), <<>>)

\* zapFieldsToMap: key -> converted value, a later field replacing an
\* earlier one of the same key.
zapFieldsToMap(fields) == zapFieldsToMapFrom(fields, <<>>)

\* The field of a record with the given key ("" when there is none).
FieldOf(fields, key) ==
  LET hits == {i \in DOMAIN fields : fields[i].Key = key}
  IN IF hits = {} THEN Absent
     ELSE zapFieldValue(fields[CHOOSE i \in hits : \A j \in hits : i <= j])

\* ------------------------------------------------------------ accessors
\* model.go, lines 117-181.  Each accessor asserts the type of what is
\* stored under its key and falls back when the assertion fails.
GetLogger(ectx) ==
  IF ectx["logger"].t = "logger" THEN ectx["logger"] ELSE GlobalLogger

\* Mutant of GetLoggerFromContext: no fallback to zap.S().
GetLoggerFromContext_NoFallback(gctx) == gctx["logger"]

GetLoggerFromContext(gctx) ==
  IF gctx["logger"].t = "logger" THEN gctx["logger"] ELSE GlobalLogger

GetTraceID(ectx) ==
  IF ectx["trace_id"].t = "string" THEN ectx["trace_id"].v ELSE ""

GetTraceIDFromContext(gctx) ==
  IF gctx["trace_id"].t = "string" THEN gctx["trace_id"].v ELSE ""

GetSpanID(ectx) ==
  IF ectx["span_id"].t = "string" THEN ectx["span_id"].v ELSE ""

\* Mutant of GetSpanIDFromContext: the key of the trace id.
GetSpanIDFromContext_TraceKey(gctx) ==
  IF gctx["trace_id"].t = "string" THEN gctx["trace_id"].v ELSE ""

GetSpanIDFromContext(gctx) ==
  IF gctx["span_id"].t = "string" THEN gctx["span_id"].v ELSE ""

GetRequestID(ectx) ==
  IF ectx["request_id"].t = "string" THEN ectx["request_id"].v ELSE ""

GetRequestIDFromContext(gctx) ==
  IF gctx["request_id"].t = "string" THEN gctx["request_id"].v ELSE ""

\* What a handler holds after calling the eight accessors: the four on the
\* echo context (c) and the four on the request's context (ctx).
NoSeen == [t |-> "none"]
Accessors(ectx, gctx) ==
  [t |-> "seen",
   c   |-> [logger |-> GetLogger(ectx), trace_id |-> GetTraceID(ectx),
            span_id |-> GetSpanID(ectx), request_id |-> GetRequestID(ectx)],
   ctx |-> [logger |-> GetLoggerFromContext(gctx),
            trace_id |-> GetTraceIDFromContext(gctx),
            span_id |-> GetSpanIDFromContext(gctx),
            request_id |-> GetRequestIDFromContext(gctx)]]

\* A request BodyDump has not been called on.
NoDump == [called |-> FALSE, reqBody |-> <<>>, resBody |-> <<>>]

\* ------------------------------------------------------- request state
\* A request as the server hands it to the chain.  in.* never change.
NewReq(upgrade, path, body, rerr, reqHdr, resHdr, span) ==
  [ in        |-> [upgrade |-> upgrade, path |-> path, body |-> body,
                   rerr |-> rerr, reqHdr |-> reqHdr, resHdr |-> resHdr,
                   span |-> span],
    pc        |-> "enter",
    depth     |-> 1,             \* the middleware of the chain entered next
    pass      |-> FALSE,         \* ZapLogger took its upgrade passthrough
    stream    |-> [data |-> body, err |-> rerr],     \* c.Request().Body
    bodyBytes |-> <<>>,          \* ZapLogger's bodyBytes
    tee       |-> FALSE,         \* c.Response().Writer is the tee writer
    resHdr    |-> resHdr,        \* X-Request-ID of c.Response().Header()
    status    |-> 0,             \* c.Response().Status
    committed |-> FALSE,         \* c.Response().Committed
    real      |-> <<>>,          \* bytes the real writer accepted
    capture   |-> <<>>,          \* resBody
    written   |-> <<>>,          \* ghost: bytes passed to Response.Write
    full      |-> <<>>,          \* ghost: calls the real writer took whole
    nwrites   |-> 0,
    hread     |-> [done |-> FALSE, data |-> <<>>, err |-> ""],
    hcalls    |-> 0,             \* ghost: invocations of the handler
    ecalls    |-> <<>>,          \* ghost: errors given to the error handler
    err       |-> "nil",         \* what next(c) returned
    ret       |-> "none",        \* what the outermost middleware returned
    fields    |-> <<>>,          \* ZapLogger's fields
    gctx      |-> EmptyCtx,      \* values of c.Request().Context()
    ectx      |-> EmptyCtx,      \* values of the echo context (c.Set)
    spanAttr  |-> Absent,        \* attribute request.id of the span
    seen      |-> NoSeen,        \* ghost: what the accessors gave the handler
    dump      |-> NoDump,        \* ghost: the bodies BodyDump was called with
    wlog      |-> <<>> ]         \* ghost: the Write calls made on the tee

\* A slot of Reqs that carries no request.
Idle ==
  [NewReq(FALSE, "/test/:id", <<>>, "", <<>>, <<>>, NoSpan)
     EXCEPT !.pc = "idle"]
\* The goroutine of a request: its argument, the document it built, the
\* calls of mongoInsertFunc it made, what the last one returned, and whether
\* its timeout context is still uncancelled.
NoTask == [st |-> "none", fields |-> <<>>, doc |-> <<>>, inserts |-> 0,
           outcome |-> "none", ctxOpen |-> FALSE]

Active == {r \in Reqs : req[r].pc # "idle"}

Upd(r, q) == req' = [req EXCEPT ![r] = q]

\* ------------------------------------------------------ body and writer
\* io.ReadAll on a stream: everything left, and the stream's error if it
\* ends in one.
ReadAll(stream) == [bytes |-> stream.data, err |-> stream.err]

\* Mutant of readAndResetBody: the body is read and not put back.
readAndResetBody_NoReset(stream) ==
  LET got == ReadAll(stream)
  IN [bytes |-> IF got.err # "" THEN <<>> ELSE got.bytes, err |-> got.err,
      stream |-> [data |-> <<>>, err |-> got.err]]

\* Mutant of readAndResetBody: the read error is dropped.
readAndResetBody_ErrDropped(stream) ==
  LET got == ReadAll(stream)
  IN [bytes |-> got.bytes, err |-> "",
      stream |-> [data |-> got.bytes, err |-> ""]]

\* readAndResetBody: the bytes read and the error; on success the request
\* body becomes a fresh buffer over the same bytes.
readAndResetBody(stream) ==
  LET got == ReadAll(stream)
  IN IF got.err # ""
       THEN [bytes |-> <<>>, err |-> got.err,
             stream |-> [data |-> <<>>, err |-> got.err]]
       ELSE [bytes |-> got.bytes, err |-> "",
             stream |-> [data |-> got.bytes, err |-> ""]]

\* The real writer takes the first n bytes of b (n < Len(b): an error or a
\* short write).
RealWrite(real, b, n) == real \o SubSeq(b, 1, n)

\* Mutant of TeeWrite: the buffer gets b whatever the real writer took.
TeeWrite_CaptureAlways(q, b, n) ==
  [q EXCEPT !.real = RealWrite(q.real, b, n), !.capture = q.capture \o b]

\* One Write call on the tee: its bytes, what the real writer took of them,
\* and the writers that were called, in the order of the calls.
TeeCall(b, n, sinks) == [b |-> b, n |-> n, sinks |-> sinks]

\* Mutant of TeeWrite: the buffer first, then the real writer, both always.
TeeWrite_CaptureFirst(q, b, n) ==
  [q EXCEPT !.real = RealWrite(q.real, b, n),
            !.capture = q.capture \o b,
            !.wlog = Append(@, TeeCall(b, n, <<"capture", "real">>))]

\* responseWriter.Write over io.MultiWriter(real, resBody): the real writer
\* first; the buffer gets b only when the real writer took all of it.
TeeWrite(q, b, n) ==
  [q EXCEPT !.real = RealWrite(q.real, b, n),
            !.capture = IF n = Len(b) THEN q.capture \o b ELSE q.capture,
            !.wlog = Append(@, TeeCall(b, n,
                       IF n = Len(b) THEN <<"real", "capture">>
                                     ELSE <<"real">>))]

\* A Write on c.Response().Writer, whichever writer is installed.
WriterWrite(q, b, n) ==
  IF q.tee THEN TeeWrite(q, b, n)
  ELSE [q EXCEPT !.real = RealWrite(q.real, b, n)]

\* echo.Response.WriteHeader: the first call sets the status and commits.
RespWriteHeader(q, code) ==
  IF q.committed THEN q
  ELSE [q EXCEPT !.status = code, !.committed = TRUE]

\* echo.Response.Write: commits with the status so far (200 when none),
\* then writes through the installed writer.
RespWrite(q, b, n) ==
  LET c == IF q.committed THEN q
           ELSE RespWriteHeader(q, IF q.status = 0 THEN 200 ELSE q.status)
      w == WriterWrite(c, b, n)
  IN [w EXCEPT !.written = c.written \o b,
               !.full = IF n = Len(b) THEN c.full \o b ELSE c.full,
               !.nwrites = c.nwrites + 1]

\* --------------------------------------------------------------- ZapLogger
\* Mutant of IsWebSocketUpgrade: no request is taken for an upgrade.
IsWebSocketUpgrade_Never(q) == FALSE

\* websocket.IsWebSocketUpgrade(c.Request())
IsWebSocketUpgrade(q) == q.in.upgrade

\* Mutant of ZapEnter: an upgrade request skips the capture of the bodies
\* only, and is logged after the handler like any other.
ZapEnter_UpgradeLogged(r) ==
  LET q == req[r] IN
  /\ q.pc = "enter" /\ q.depth <= Len(chain) /\ chain[q.depth] = "zap"
  /\ IF IsWebSocketUpgrade(q)
       THEN Upd(r, [q EXCEPT !.depth = q.depth + 1])
       ELSE LET rb == readAndResetBody(q.stream) IN
            IF rb.err # ""
              THEN Upd(r, [q EXCEPT !.stream = rb.stream, !.pc = "done",
                                    !.ret = rb.err])
              ELSE Upd(r, [q EXCEPT !.stream = rb.stream,
                                    !.bodyBytes = rb.bytes,
                                    !.tee = TRUE,
                                    !.depth = q.depth + 1])
  /\ UNCHANGED <<chain, collection, environment, task, log, mongo>>

\* Lines 32-57: the upgrade passthrough, or the body capture (returning its
\* error) and the installation of the tee writer.
ZapEnter(r) ==
  LET q == req[r] IN
  /\ q.pc = "enter" /\ q.depth <= Len(chain) /\ chain[q.depth] = "zap"
  /\ IF IsWebSocketUpgrade(q)
       THEN Upd(r, [q EXCEPT !.pass = TRUE, !.depth = q.depth + 1])
       ELSE LET rb == readAndResetBody(q.stream) IN
            IF rb.err # ""
              THEN Upd(r, [q EXCEPT !.stream = rb.stream, !.pc = "done",
                                    !.ret = rb.err])
              ELSE Upd(r, [q EXCEPT !.stream = rb.stream,
                                    !.bodyBytes = rb.bytes,
                                    !.tee = TRUE,
                                    !.depth = q.depth + 1])
  /\ UNCHANGED <<chain, collection, environment, task, log, mongo>>

\* Lines 59-62: next(c) has returned; its error goes to c.Error, that is to
\* the framework's HTTPErrorHandler.  The handler installed is either a
\* custom one that writes nothing, or echo's default one, which answers with
\* the error's status and a body unless the response is committed already.
ErrBody == <<"b">>
ErrorHandler(q, kind, code, n) ==
  LET called == [q EXCEPT !.ecalls = Append(q.ecalls, q.err)]
  IN IF kind = "default" /\ ~called.committed
       THEN RespWrite(RespWriteHeader(called, code), ErrBody, n)
       ELSE called

\* Mutant of ZapAfterNext: the handler's error is returned, not handled.
ZapAfterNext_ReturnsErr(r) ==
  LET q == req[r] IN
  /\ q.pc = "zapAfter"
  /\ IF q.err # "nil"
       THEN Upd(r, [q EXCEPT !.pc = "done", !.ret = q.err])
       ELSE Upd(r, [q EXCEPT !.pc = "zapBuild"])
  /\ UNCHANGED <<chain, collection, environment, task, log, mongo>>

ZapAfterNext(r) ==
  LET q == req[r] IN
  /\ q.pc = "zapAfter"
  /\ IF q.err # "nil"
       THEN \E kind \in {"custom", "default"}, code \in ErrStatuses,
               n \in 0..Len(ErrBody) :
              Upd(r, [ErrorHandler(q, kind, code, n) EXCEPT !.pc = "zapBuild"])
       ELSE Upd(r, [q EXCEPT !.pc = "zapBuild"])
  /\ UNCHANGED <<chain, collection, environment, task, log, mongo>>

\* Mutant of ZapRequestID: the response header first.
ZapRequestID_ResponseFirst(reqHdr, resHdr) ==
  IF HeaderGet(resHdr) # "" THEN HeaderGet(resHdr) ELSE HeaderGet(reqHdr)

\* Lines 66-69: the request id of the record.
ZapRequestID(reqHdr, resHdr) ==
  IF HeaderGet(reqHdr) # "" THEN HeaderGet(reqHdr) ELSE HeaderGet(resHdr)

\* GetTraceIDFromContext and its twins: the string stored under the key,
\* "" when nothing or something of another type is stored.
StringFromContext(ctx, key) ==
  IF ctx[key].t = "string" THEN ctx[key].v ELSE ""

\* Lines 77-99: the record, from the response and request as they stand.
BuildFields(q) ==
  << zapInt("status", q.status),
     zapString("request_id", ZapRequestID(q.in.reqHdr, q.resHdr)),
     zapString("trace_id", StringFromContext(q.gctx, "trace_id")),
     zapString("span_id", q.in.span.sid),
     zapString("path", q.in.path),
     zapString("body", q.bodyBytes),
     zapString("response", q.capture) >>

ZapBuildFields(r) ==
  LET q == req[r] IN
  /\ q.pc = "zapBuild"
  /\ Upd(r, [q EXCEPT !.fields = BuildFields(q), !.pc = "zapLog"])
  /\ UNCHANGED <<chain, collection, environment, task, log, mongo>>

\* Mutant of SkipLog: the status is not looked at.
SkipLog_AnyStatus(path, status) == path = "/healthz"

\* Line 101: the health-check rule.
SkipLog(path, status) == path = "/healthz" /\ status = 200

\* Mutant of Classify: the thresholds are exclusive.
Classify_Exclusive(n) ==
  IF n > 500 THEN [level |-> "error", msg |-> "Server error"]
  ELSE IF n > 400 THEN [level |-> "warn", msg |-> "Client error"]
  ELSE IF n > 300 THEN [level |-> "info", msg |-> "Redirection"]
  ELSE [level |-> "info", msg |-> "Success"]

\* Lines 105-115: the level and message of the main line.
Classify(n) ==
  IF n >= 500 THEN [level |-> "error", msg |-> "Server error"]
  ELSE IF n >= 400 THEN [level |-> "warn", msg |-> "Client error"]
  ELSE IF n >= 300 THEN [level |-> "info", msg |-> "Redirection"]
  ELSE [level |-> "info", msg |-> "Success"]

MainEntry(r, q) ==
  [rid |-> r, kind |-> "main", level |-> Classify(q.status).level,
   msg |-> Classify(q.status).msg, fields |-> q.fields]

\* Mutant of ZapLog: the bands are tested one after the other with no else,
\* so that a status from 500 is logged as a server and as a client error.
ZapLog_EveryBand(r) ==
  LET q == req[r] IN
  /\ q.pc = "zapLog"
  /\ IF SkipLog(q.in.path, q.status)
       THEN /\ Upd(r, [q EXCEPT !.pc = "done", !.ret = "nil"])
            /\ UNCHANGED log
       ELSE /\ log' = IF q.status >= 500
                        THEN log \o <<MainEntry(r, q),
                                      [MainEntry(r, q) EXCEPT
                                         !.level = "warn",
                                         !.msg = "Client error"]>>
                        ELSE Append(log, MainEntry(r, q))
            /\ Upd(r, [q EXCEPT !.pc = "zapSpawn"])
  /\ UNCHANGED <<chain, collection, environment, task, mongo>>

\* Lines 101-115: return nil on the health-check rule, else one log call.
ZapLog(r) ==
  LET q == req[r] IN
  /\ q.pc = "zapLog"
  /\ IF SkipLog(q.in.path, q.status)
       THEN /\ Upd(r, [q EXCEPT !.pc = "done", !.ret = "nil"])
            /\ UNCHANGED log
       ELSE /\ log' = Append(log, MainEntry(r, q))
            /\ Upd(r, [q EXCEPT !.pc = "zapSpawn"])
  /\ UNCHANGED <<chain, collection, environment, task, mongo>>

\* Mutant of PersistenceEnabled: the nil check is missing.
PersistenceEnabled_Always(coll) == TRUE

\* Line 117: the guard of the go statement.
PersistenceEnabled(coll) == coll # "nil"

\* Lines 117-128: the go statement; the goroutine gets the fields.
ZapSpawn(r) ==
  LET q == req[r] IN
  /\ q.pc = "zapSpawn"
  /\ IF PersistenceEnabled(collection)
       THEN task' = [task EXCEPT ![r] =
                       [NoTask EXCEPT !.st = "spawned", !.fields = q.fields]]
       ELSE UNCHANGED task
  /\ Upd(r, [q EXCEPT !.pc = "zapReturn"])
  /\ UNCHANGED <<chain, collection, environment, log, mongo>>

\* Mutant of ZapReturn: the goroutine is joined before returning.
ZapReturn_Waits(r) ==
  LET q == req[r] IN
  /\ q.pc = "zapReturn" /\ task[r].st \in {"none", "ended"}
  /\ Upd(r, [q EXCEPT !.pc = "done", !.ret = "nil"])
  /\ UNCHANGED <<chain, collection, environment, task, log, mongo>>

\* Line 130: return nil.  Nothing of the goroutine is waited for.
ZapReturn(r) ==
  LET q == req[r] IN
  /\ q.pc = "zapReturn"
  /\ Upd(r, [q EXCEPT !.pc = "done", !.ret = "nil"])
  /\ UNCHANGED <<chain, collection, environment, task, log, mongo>>

\* ------------------------------------------------ persistence goroutine
\* Mutant of TaskInsert: one insert at a time, the others wait their turn.
TaskInsert_OneAtATime(r) ==
  /\ task[r].st = "spawned"
  /\ \A o \in Reqs : task[o].st # "inserting"
  /\ task' = [task EXCEPT ![r] =
                [@ EXCEPT !.st = "inserting",
                          !.doc = zapFieldsToMap(task[r].fields),
                          !.inserts = @ + 1,
                          !.ctxOpen = TRUE]]
  /\ UNCHANGED <<chain, collection, environment, req, log, mongo>>

\* Lines 119-123: the document, the 5 second context, the call of
\* mongoInsertFunc.
TaskInsert(r) ==
  /\ task[r].st = "spawned"
  /\ task' = [task EXCEPT ![r] =
                [@ EXCEPT !.st = "inserting",
                          !.doc = zapFieldsToMap(task[r].fields),
                          !.inserts = @ + 1,
                          !.ctxOpen = TRUE]]
  /\ UNCHANGED <<chain, collection, environment, req, log, mongo>>

InsertOutcomes == {"ok", "insert failed", "context deadline exceeded"}

MongoErrorEntry(r, e) ==
  [rid |-> r, kind |-> "mongo", level |-> "error",
   msg |-> "Error while inserting log to mongo",
   fields |-> <<zapString("error", e)>>]

\* Mutant of TaskFinish: the deferred cancel is missing.
TaskFinish_NoCancel(r, o) ==
  /\ task[r].st = "inserting"
  /\ LET e == IF collection = "nil" THEN "collection is nil" ELSE o IN
     /\ task' = [task EXCEPT ![r] = [@ EXCEPT !.st = "ended", !.outcome = e]]
     /\ IF e = "ok"
          THEN /\ mongo' = Append(mongo, [rid |-> r, doc |-> task[r].doc])
               /\ UNCHANGED log
          ELSE /\ log' = Append(log, MongoErrorEntry(r, e))
               /\ UNCHANGED mongo
  /\ UNCHANGED <<chain, collection, environment, req>>

\* Mutant of TaskFinish: a failed insert is logged and tried again.
TaskFinish_Retry(r, o) ==
  /\ task[r].st = "inserting"
  /\ IF o = "ok"
       THEN /\ task' = [task EXCEPT ![r] =
                          [@ EXCEPT !.st = "ended", !.outcome = o,
                                    !.ctxOpen = FALSE]]
            /\ mongo' = Append(mongo, [rid |-> r, doc |-> task[r].doc])
            /\ UNCHANGED log
       ELSE /\ task' = [task EXCEPT ![r] =
                          [@ EXCEPT !.st = IF task[r].inserts < 2
                                             THEN "inserting" ELSE "ended",
                                    !.inserts = IF task[r].inserts < 2
                                                  THEN 2 ELSE @,
                                    !.outcome = o,
                                    !.ctxOpen = task[r].inserts < 2]]
            /\ log' = Append(log, [rid |-> r, kind |-> "mongo",
                                   level |-> "error",
                                   msg |-> "Error while inserting log to mongo",
                                   fields |-> <<>>])
            /\ UNCHANGED mongo
  /\ UNCHANGED <<chain, collection, environment, req>>

\* Lines 123-127: mongoInsertFunc returns (the store's answer, or its own
\* error on a nil collection); an error is logged; the deferred cancel runs
\* and the goroutine ends.
TaskFinish(r, o) ==
  /\ task[r].st = "inserting"
  /\ LET e == IF collection = "nil" THEN "collection is nil" ELSE o IN
     /\ task' = [task EXCEPT ![r] =
                   [@ EXCEPT !.st = "ended", !.outcome = e,
                             !.ctxOpen = FALSE]]
     /\ IF e = "ok"
          THEN /\ mongo' = Append(mongo, [rid |-> r, doc |-> task[r].doc])
               /\ UNCHANGED log
          ELSE /\ log' = Append(log, MongoErrorEntry(r, e))
               /\ UNCHANGED mongo
  /\ UNCHANGED <<chain, collection, environment, req>>

\* ----------------------------------------------------------------- handler
\* The chain is exhausted: the route handler is called.
HandlerStart(r) ==
  LET q == req[r] IN
  /\ q.pc = "enter" /\ q.depth > Len(chain)
  /\ Upd(r, [q EXCEPT !.pc = "handler", !.hcalls = q.hcalls + 1])
  /\ UNCHANGED <<chain, collection, environment, task, log, mongo>>

\* io.ReadAll(c.Request().Body) in the handler.
HandlerReadBody(r) ==
  LET q == req[r]
      got == ReadAll(q.stream) IN
  /\ q.pc = "handler" /\ ~q.hread.done
  /\ Upd(r, [q EXCEPT !.hread = [done |-> TRUE, data |-> got.bytes,
                                 err |-> got.err],
                      !.stream = [data |-> <<>>, err |-> q.stream.err]])
  /\ UNCHANGED <<chain, collection, environment, task, log, mongo>>

\* c.Response().Header().Set(echo.HeaderXRequestID, v)
HandlerSetHeader(r, v) ==
  LET q == req[r] IN
  /\ q.pc = "handler" /\ q.resHdr # HeaderSet(v)
  /\ Upd(r, [q EXCEPT !.resHdr = HeaderSet(v)])
  /\ UNCHANGED <<chain, collection, environment, task, log, mongo>>

\* c.Response().WriteHeader(code), as c.String and c.NoContent call it.
HandlerWriteHeader(r, code) ==
  LET q == req[r] IN
  /\ q.pc = "handler" /\ ~q.committed
  /\ Upd(r, RespWriteHeader(q, code))
  /\ UNCHANGED <<chain, collection, environment, task, log, mongo>>

\* c.Response().Write(b), b the next chunk; the real writer takes n bytes.
HandlerWrite(r, n) ==
  LET q == req[r]
      b == Chunk(q.nwrites + 1) IN
  /\ q.pc = "handler" /\ q.nwrites < MaxWrites /\ n <= Len(b)
  /\ Upd(r, RespWrite(q, b, n))
  /\ UNCHANGED <<chain, collection, environment, task, log, mongo>>

\* The handler calls GetLogger(c) .. GetRequestIDFromContext(ctx), ctx being
\* c.Request().Context().
HandlerCallsAccessors(r) ==
  LET q == req[r] IN
  /\ q.pc = "handler" /\ q.seen = NoSeen
  /\ Upd(r, [q EXCEPT !.seen = Accessors(q.ectx, q.gctx)])
  /\ UNCHANGED <<chain, collection, environment, task, log, mongo>>

\* The handler returns e.  OtelLoggerMiddleware and LoggerWithContext, and
\* ZapLogger on its upgrade passthrough, return next(c) as it is; any other
\* ZapLogger goes on with line 60.
HandlerReturn(r, e) ==
  LET q == req[r]
      zapWaits == ~q.pass /\ \E i \in DOMAIN chain : chain[i] = "zap" IN
  /\ q.pc = "handler"
  /\ IF zapWaits
       THEN Upd(r, [q EXCEPT !.err = e, !.pc = "zapAfter"])
       ELSE Upd(r, [q EXCEPT !.err = e, !.pc = "done", !.ret = e])
  /\ UNCHANGED <<chain, collection, environment, task, log, mongo>>

\* ------------------------------------------------------- model.go
\* OtelLoggerMiddleware, lines 46-49: the response header first.
OtelRequestID(resHdr, reqHdr) ==
  IF HeaderGet(resHdr) # "" THEN HeaderGet(resHdr) ELSE HeaderGet(reqHdr)

\* Mutant of OtelEnter: the attribute is set whatever the span.
OtelEnter_AlwaysSets(r) ==
  LET q == req[r]
      requestID == OtelRequestID(q.resHdr, q.in.reqHdr) IN
  /\ q.pc = "enter" /\ q.depth <= Len(chain) /\ chain[q.depth] = "otel"
  /\ Upd(r, [q EXCEPT
               !.spanAttr = Str(requestID),
               !.gctx = [@ EXCEPT !["request_id"] = Str(requestID)],
               !.depth = q.depth + 1])
  /\ UNCHANGED <<chain, collection, environment, task, log, mongo>>

\* OtelLoggerMiddleware, lines 43-60: the request id goes to the span when
\* the span is valid, and into the request's context; then next(c).
OtelEnter(r) ==
  LET q == req[r]
      requestID == OtelRequestID(q.resHdr, q.in.reqHdr) IN
  /\ q.pc = "enter" /\ q.depth <= Len(chain) /\ chain[q.depth] = "otel"
  /\ Upd(r, [q EXCEPT
               !.spanAttr = IF IsValid(q.in.span) THEN Str(requestID) ELSE @,
               !.gctx = [@ EXCEPT !["request_id"] = Str(requestID)],
               !.depth = q.depth + 1])
  /\ UNCHANGED <<chain, collection, environment, task, log, mongo>>

\* Mutant of LwcRequestID: the request header first.
LwcRequestID_RequestFirst(resHdr, reqHdr) ==
  IF HeaderGet(reqHdr) # "" THEN HeaderGet(reqHdr) ELSE HeaderGet(resHdr)

\* LoggerWithContext, lines 82-86: the response header first.
LwcRequestID(resHdr, reqHdr) ==
  IF HeaderGet(resHdr) # "" THEN HeaderGet(resHdr) ELSE HeaderGet(reqHdr)

\* zap.S().With("trace_id", .., "span_id", .., "request_id", ..)
LoggerWith(traceID, spanID, requestID) ==
  [t |-> "logger",
   v |-> [trace_id |-> traceID, span_id |-> spanID, request_id |-> requestID]]

\* LoggerWithContext, lines 71-110: the ids and the logger go into the echo
\* context and into the request's context; then next(c).
LwcEnter(r) ==
  LET q == req[r]
      valid == IsValid(q.in.span)
      traceID == IF valid THEN q.in.span.tid ELSE ""
      spanID == IF valid THEN q.in.span.sid ELSE ""
      requestID == LwcRequestID(q.resHdr, q.in.reqHdr)
      bound == [logger |-> LoggerWith(traceID, spanID, requestID),
                trace_id |-> Str(traceID), span_id |-> Str(spanID),
                request_id |-> Str(requestID)] IN
  /\ q.pc = "enter" /\ q.depth <= Len(chain) /\ chain[q.depth] = "lwc"
  /\ Upd(r, [q EXCEPT !.ectx = bound, !.gctx = bound,
                      !.depth = q.depth + 1])
  /\ UNCHANGED <<chain, collection, environment, task, log, mongo>>

\* ------------------------------------------------------- body_dump.go
\* The bytes of a dumped body: a letter, a double quote, the three control
\* characters BodyDump removes, and a byte that is not valid UTF-8.
DumpBytes == {"a", "quote", "LF", "CR", "TAB", "xFF"}
DumpBodies == UNION {[1..n -> DumpBytes] : n \in 0..MaxDumpLen}
DumpResBodies == {<<>>, <<"LF", "a", "TAB">>, <<"xFF", "CR", "quote">>}
Envs == {"", "development", "production", "Production"}
DumpPaths == {"/healthz", "/healthz/", "/api"}

\* Mutant of ReplaceAll: only the first occurrence goes.
RECURSIVE ReplaceAll_First(_, _)
ReplaceAll_First(s, old) ==
  IF s = <<>> THEN <<>>
  ELSE IF Head(s) = old THEN Tail(s)
  ELSE <<Head(s)>> \o ReplaceAll_First(Tail(s), old)

\* strings.ReplaceAll(s, old, ""), old one byte long.
RECURSIVE ReplaceAll(_, _)
ReplaceAll(s, old) ==
  IF s = <<>> THEN <<>>
  ELSE IF Head(s) = old THEN ReplaceAll(Tail(s), old)
  ELSE <<Head(s)>> \o ReplaceAll(Tail(s), old)

\* Lines 16-19 and 21-24: "\n", then "\r", then "\t".
Sanitize(body) == ReplaceAll(ReplaceAll(ReplaceAll(body, "LF"), "CR"), "TAB")

\* json.Marshal of a string, byte by byte: a quote and a control character
\* are escaped, a byte that is not valid UTF-8 becomes the escape of U+FFFD.
MarshalByte(b) ==
  CASE b = "quote" -> "\\quote"
    [] b = "LF" -> "\\n"
    [] b = "CR" -> "\\r"
    [] b = "TAB" -> "\\t"
    [] b = "xFF" -> "\\ufffd"
    [] OTHER -> b
MarshalString(s) == [i \in DOMAIN s |-> MarshalByte(s[i])]

\* json.Unmarshal of a string, token by token (part_000, line 49).
UnmarshalToken(t) ==
  CASE t = "\\quote" -> "quote"
    [] t = "\\n" -> "LF"
    [] t = "\\r" -> "CR"
    [] t = "\\t" -> "TAB"
    [] t = "\\ufffd" -> "U+FFFD"
    [] OTHER -> t
UnmarshalString(j) == [i \in DOMAIN j |-> UnmarshalToken(j[i])]

\* Lines 26-35: the JSON of the BodyDumpModel (the fields the model follows).
MarshalBodyDumpModel(q, reqBodyString, resBodyString) ==
  [path |-> q.in.path, status |-> q.status,
   request |-> MarshalString(reqBodyString),
   response |-> MarshalString(resBodyString)]

\* Mutant of DumpEnabled: either condition is enough.
DumpEnabled_Either(env, path) == env # "production" \/ path # "/healthz"

\* Line 14.
DumpEnabled(env, path) == env # "production" /\ path # "/healthz"

\* Line 37: zap.S().Infof("Body dump: %s", string(j)).
DumpEntry(r, j) ==
  [rid |-> r, kind |-> "dump", level |-> "info", msg |-> "Body dump: %s",
   fields |-> <<>>, payload |-> j]

\* BodyDump(c, reqBody, resBody), called on a request once its handler has
\* returned.
BodyDump(r, reqBody, resBody) ==
  LET q == req[r]
      j == MarshalBodyDumpModel(q, Sanitize(reqBody), Sanitize(resBody)) IN
  /\ q.pc = "done" /\ ~q.dump.called
  /\ IF DumpEnabled(environment, q.in.path)
       THEN log' = Append(log, DumpEntry(r, j))
       ELSE UNCHANGED log
  /\ Upd(r, [q EXCEPT !.dump = [called |-> TRUE, reqBody |-> reqBody,
                                resBody |-> resBody]])
  /\ UNCHANGED <<chain, collection, environment, task, mongo>>

\* ---------------------------------------------------------- specification
InitReqs(inputs) ==
  /\ \E q \in inputs : req = [r \in Reqs |-> IF r = "r1" THEN q ELSE Idle]
  /\ task = [r \in Reqs |-> NoTask]
  /\ log = <<>>
  /\ mongo = <<>>

\* One request through ZapLogger alone: bodies, writes, statuses, the store.
ZapInputs ==
  {NewReq(u, p, b, e, <<>>, <<>>, NoSpan) :
     u \in BOOLEAN, p \in Paths, b \in Bodies, e \in {""} \cup ReadErrs}

Init ==
  /\ chain = <<"zap">>
  /\ collection \in {"nil", "coll"}
  /\ environment = ""
  /\ InitReqs(ZapInputs)

Next ==
  \E r \in Reqs :
    \/ ZapEnter(r)
    \/ HandlerStart(r)
    \/ HandlerReadBody(r)
    \/ \E code \in Statuses : HandlerWriteHeader(r, code)
    \/ \E n \in 0..2 : HandlerWrite(r, n)
    \/ \E e \in {"nil"} \cup HandlerErrs : HandlerReturn(r, e)
    \/ ZapAfterNext(r)
    \/ ZapBuildFields(r)
    \/ ZapLog(r)
    \/ ZapSpawn(r)
    \/ ZapReturn(r)
    \/ TaskInsert(r)
    \/ \E o \in InsertOutcomes : TaskFinish(r, o)

Spec == Init /\ [][Next]_vars

\* One request through the chains that bind identifiers: headers and spans.
Chains == {<<"otel">>, <<"lwc">>, <<"otel", "lwc">>, <<"lwc", "otel">>,
           <<"zap">>, <<"zap", "otel", "lwc">>}

CtxInputs ==
  {NewReq(FALSE, "/test/:id", <<>>, "", qh, ph, sp) :
     qh \in HeaderValues, ph \in HeaderValues, sp \in Spans}

InitCtx ==
  /\ chain \in Chains
  /\ collection = "nil"
  /\ environment = ""
  /\ InitReqs(CtxInputs)

NextCtx ==
  \E r \in Reqs :
    \/ ZapEnter(r)
    \/ OtelEnter(r)
    \/ LwcEnter(r)
    \/ HandlerStart(r)
    \/ HandlerSetHeader(r, "gen")
    \/ HandlerCallsAccessors(r)
    \/ \E e \in {"nil"} \cup HandlerErrs : HandlerReturn(r, e)
    \/ ZapAfterNext(r)
    \/ ZapBuildFields(r)
    \/ ZapLog(r)
    \/ ZapSpawn(r)
    \/ ZapReturn(r)

SpecCtx == InitCtx /\ [][NextCtx]_vars

\* The accessors outside the chain: a handler with no middleware before it,
\* on contexts where each key holds nothing, a string or a logger, so that
\* every accessor meets a missing value and a value of another type.
StoredValues == {Absent, Str("x"), LoggerWith("x", "x", "x")}
StoredCtxs == [CtxKeys -> StoredValues]

AccInputs ==
  {[NewReq(FALSE, "/test/:id", <<>>, "", <<>>, <<>>, NoSpan)
      EXCEPT !.ectx = e, !.gctx = g] : e \in StoredCtxs, g \in StoredCtxs}

InitAcc ==
  /\ chain = <<>>
  /\ collection = "nil"
  /\ environment = ""
  /\ InitReqs(AccInputs)

NextAcc ==
  \E r \in Reqs :
    \/ HandlerStart(r)
    \/ HandlerCallsAccessors(r)
    \/ HandlerReturn(r, "nil")

SpecAcc == InitAcc /\ [][NextAcc]_vars

\* BodyDump on its own: a request with no middleware of this package before
\* its handler, any environment, the paths around "/healthz", any bodies.
DumpInputs ==
  {NewReq(FALSE, p, <<>>, "", <<>>, <<>>, NoSpan) : p \in DumpPaths}

InitDump ==
  /\ chain = <<>>
  /\ collection = "nil"
  /\ environment \in Envs
  /\ InitReqs(DumpInputs)

NextDump ==
  \E r \in Reqs :
    \/ HandlerStart(r)
    \/ \E code \in {200, 500} : HandlerWriteHeader(r, code)
    \/ HandlerReturn(r, "nil")
    \/ /\ req[r].pc = "done" /\ ~req[r].dump.called
       /\ \E b \in DumpBodies : \E p \in DumpResBodies : BodyDump(r, b, p)

SpecDump == InitDump /\ [][NextDump]_vars

\* Two requests at once through one ZapLogger with a collection: they differ
\* in path, body, request id and span, and their steps interleave freely.
ParInputs ==
  [r1 |-> NewReq(FALSE, "/test/:id", <<"a">>, "", <<"id1">>, <<>>,
                 [tid |-> "0102", sid |-> "0807"]),
   r2 |-> NewReq(FALSE, "/healthz", <<"a", "b">>, "", <<"id2">>, <<>>,
                 NoSpan)]

InitPar ==
  /\ chain = <<"zap">>
  /\ collection = "coll"
  /\ environment = ""
  /\ req = ParInputs
  /\ task = [r \in Reqs |-> NoTask]
  /\ log = <<>>
  /\ mongo = <<>>

NextPar ==
  \E r \in Reqs :
    \/ ZapEnter(r)
    \/ HandlerStart(r)
    \/ \E code \in {200, 500} : HandlerWriteHeader(r, code)
    \/ HandlerWrite(r, 1)
    \/ HandlerReturn(r, "nil")
    \/ ZapAfterNext(r)
    \/ ZapBuildFields(r)
    \/ ZapLog(r)
    \/ ZapSpawn(r)
    \/ ZapReturn(r)
    \/ TaskInsert(r)
    \/ \E o \in InsertOutcomes : TaskFinish(r, o)

SpecPar == InitPar /\ [][NextPar]_vars

\* The same two requests, their handlers writing a status at most, under the
\* scheduling the runtime and the store give: a goroutine that can run does
\* run, and an insert handed a context with a deadline returns (with nil, an
\* error, or the deadline's error).  Nothing is assumed of the handlers.
NextLive ==
  \E r \in Reqs :
    \/ ZapEnter(r)
    \/ HandlerStart(r)
    \/ \E code \in {200, 500} : HandlerWriteHeader(r, code)
    \/ HandlerReturn(r, "nil")
    \/ ZapAfterNext(r)
    \/ ZapBuildFields(r)
    \/ ZapLog(r)
    \/ ZapSpawn(r)
    \/ ZapReturn(r)
    \/ TaskInsert(r)
    \/ \E o \in InsertOutcomes : TaskFinish(r, o)

SpecLive ==
  /\ InitPar /\ [][NextLive]_vars
  /\ \A r \in Reqs : WF_vars(TaskInsert(r))
  /\ \A r \in Reqs : WF_vars(\E o \in InsertOutcomes : TaskFinish(r, o))

\* zapFieldsToMap called on fields of every type, as the goroutine calls it:
\* up to MaxFields fields under two keys.
MapKeys == {"k1", "k2"}
MapFields ==
  UNION {{zapString(k, <<>>), zapString(k, <<"a">>), zapInt(k, 7),
          zapUint64(k, Num(0, 8)), zapUint64(k, Num(1, 8)),
          zapFloat64(k, "0.0"), zapFloat64(k, "3.14"),
          zapBool(k, TRUE), zapBool(k, FALSE),
          zapTime(k, 0), zapTime(k, NanosPerSecond + 1),
          zapDuration(k, NanosPerSecond),
          zapReflect(k, [a |-> 1]),
          zapUnknown(k, <<"f">>)} : k \in MapKeys}
MapInputs == UNION {[1..n -> MapFields] : n \in 1..MaxFields}

InitMap ==
  /\ chain = <<"zap">>
  /\ collection = "coll"
  /\ environment = ""
  /\ req = [r \in Reqs |-> Idle]
  /\ \E fields \in MapInputs :
       task = [r \in Reqs |->
                 IF r = "r1"
                   THEN [NoTask EXCEPT !.st = "spawned", !.fields = fields]
                   ELSE NoTask]
  /\ log = <<>>
  /\ mongo = <<>>

NextMap ==
  \E r \in Reqs :
    \/ TaskInsert(r)
    \/ \E o \in InsertOutcomes : TaskFinish(r, o)

SpecMap == InitMap /\ [][NextMap]_vars

\* ------------------------------------------------------------ properties
MainIdx(r) == {i \in DOMAIN log : log[i].rid = r /\ log[i].kind = "main"}
MongoIdx(r) == {i \in DOMAIN log : log[i].rid = r /\ log[i].kind = "mongo"}
MainLines(r) == Cardinality(MainIdx(r))
MongoLines(r) == Cardinality(MongoIdx(r))
HasZap == \E i \in DOMAIN chain : chain[i] = "zap"

\* ZapLogger has run its first lines on the request.
Entered(q) == q.pc # "enter" \/ q.depth > 1
\* A request ZapLogger neither passes through nor aborts.
Captured(q) == HasZap /\ ~q.in.upgrade /\ q.in.rerr = "" /\ Entered(q)
\* The request is past the health-check rule of ZapLogger.
Decided(q) ==
  Captured(q) /\ q.pc \in {"zapSpawn", "zapReturn", "done"}

\* The bands as the specification words them.
Band(s) ==
  IF s >= 500 THEN <<"error", "Server error">>
  ELSE IF 400 <= s /\ s < 500 THEN <<"warn", "Client error">>
  ELSE IF 300 <= s /\ s < 400 THEN <<"info", "Redirection">>
  ELSE <<"info", "Success">>

\* C1: on a non-upgrade request whose body read succeeds, the handler reads
\* from the request body exactly the inbound bytes (all of them, in order,
\* from the start, with no error), and the "body" field of the log record
\* holds the same bytes.
C1_BodyRoundTrip ==
  \A r \in Active :
    LET q == req[r] IN
    Captured(q) =>
      /\ q.pc \in {"enter", "handler"} /\ ~q.hread.done
           => q.stream = [data |-> q.in.body, err |-> ""]
      /\ q.hread.done => q.hread.data = q.in.body /\ q.hread.err = ""
      /\ \A i \in MainIdx(r) : FieldOf(log[i].fields, "body") = q.in.body

C1_Witness ==
  \E r \in Active :
    /\ Captured(req[r]) /\ req[r].hread.done
    /\ Len(req[r].in.body) >= 2
    /\ req[r].hread.data = req[r].in.body
    /\ MainLines(r) = 1

\* C2 as stated, read in its favour (bytes the real writer itself refuses
\* are not held against the tee): on a non-upgrade request, whatever the
\* writes, the capture buffer and the logged "response" field hold exactly
\* the bytes the real writer got, and those are the bytes written whenever
\* the real writer took every call whole.
C2_TeeExact ==
  \A r \in Active :
    LET q == req[r] IN
    Captured(q) =>
      /\ q.capture = q.real
      /\ \A i \in MainIdx(r) : FieldOf(log[i].fields, "response") = q.real
      /\ q.full = q.written => q.real = q.written

\* C2 as amended: the capture buffer, and the logged "response" field, hold
\* in order the bytes of exactly those Write calls that the real writer took
\* whole; when it took every call whole, the bytes it got, the bytes written
\* and the bytes captured are one and the same sequence.
C2_TeeOfAcceptedWrites ==
  \A r \in Active :
    LET q == req[r] IN
    Captured(q) =>
      /\ q.capture = q.full
      /\ \A i \in MainIdx(r) : FieldOf(log[i].fields, "response") = q.full
      /\ q.full = q.written => q.real = q.written /\ q.capture = q.written

C2_Witness ==
  \E r \in Active :
    /\ Captured(req[r]) /\ req[r].nwrites = 2
    /\ req[r].full = req[r].written /\ req[r].real = <<"a", "b", "a">>
    /\ \E i \in MainIdx(r) :
         FieldOf(log[i].fields, "response") = <<"a", "b", "a">>

\* The code's switch agrees with the bands on every status 100..599.
C3_BandsTotal ==
  \A s \in 100..599 : <<Classify(s).level, Classify(s).msg>> = Band(s)

\* C3: the main line's level and message are a function of the response
\* status: Error/"Server error" from 500, Warn/"Client error" from 400 to
\* 499, Info/"Redirection" from 300 to 399, Info/"Success" otherwise; every
\* status 100..599 falls in exactly one band and 300, 400 and 500 in the band
\* they start; a request has at most one main line.
C3_Classification ==
  /\ C3_BandsTotal
  /\ \A r \in Active :
       /\ MainLines(r) <= 1
       /\ \A i \in MainIdx(r) :
            /\ FieldOf(log[i].fields, "status") = req[r].status
            /\ <<log[i].level, log[i].msg>> = Band(req[r].status)

C3_Witness ==
  \E r \in Active : \E i \in MainIdx(r) :
    /\ req[r].status = 400
    /\ log[i].level = "warn" /\ log[i].msg = "Client error"

\* What C4 says of a request whose body read fails.
C4_Aborted(r) ==
  LET q == req[r] IN
  HasZap /\ ~q.in.upgrade /\ q.in.rerr # "" =>
    /\ q.hcalls = 0
    /\ \A i \in DOMAIN log : log[i].rid # r
    /\ task[r].st = "none"
    /\ \/ q.pc = "enter" /\ q.depth = 1
       \/ q.pc = "done" /\ q.ret = q.in.rerr

\* C4 as stated: a failed body read of a non-upgrade request makes ZapLogger
\* return that error, with no handler call, no log line and no persistence
\* attempt; and ZapLogger returns a non-nil error on no other path.
C4_OnlyErrorPath ==
  \A r \in Active :
    /\ C4_Aborted(r)
    /\ HasZap /\ req[r].ret \notin {"none", "nil"}
         => ~req[r].in.upgrade /\ req[r].in.rerr # ""

\* C4 as amended: the same, but the failed body read is the only path to a
\* non-nil error for a non-upgrade request; on an upgrade request ZapLogger
\* returns what the handler returned, an error included.
C4_OnlyErrorPathNonUpgrade ==
  \A r \in Active :
    /\ C4_Aborted(r)
    /\ HasZap /\ req[r].ret \notin {"none", "nil"} =>
         IF req[r].in.upgrade
           THEN req[r].hcalls = 1 /\ req[r].ret = req[r].err
           ELSE req[r].in.rerr # "" /\ req[r].ret = req[r].in.rerr

C4_Witness ==
  \E r \in Active :
    /\ ~req[r].in.upgrade /\ req[r].in.rerr = "unexpected EOF"
    /\ req[r].in.body # <<>>
    /\ req[r].pc = "done" /\ req[r].ret = "unexpected EOF"

\* C5: when the handler of a non-upgrade request returns an error e, the
\* error handler gets e exactly once, ZapLogger returns nil, and unless the
\* health-check rule applies there is exactly one main line, classified from
\* the status the error handler left.
C5_HandlerErrorIsolated ==
  \A r \in Active :
    LET q == req[r] IN
    Captured(q) /\ q.err # "nil" =>
      /\ q.pc # "zapAfter" => q.ecalls = <<q.err>>
      /\ q.pc = "done" => q.ret = "nil"
      /\ Decided(q) =>
           IF q.in.path = "/healthz" /\ q.status = 200
             THEN MainLines(r) = 0
             ELSE /\ MainLines(r) = 1
                  /\ \A i \in MainIdx(r) :
                       <<log[i].level, log[i].msg>> = Band(q.status)

C5_Witness ==
  \E r \in Active :
    /\ Captured(req[r]) /\ req[r].err = "handler failed"
    /\ req[r].pc = "done" /\ req[r].ret = "nil"
    /\ req[r].ecalls = <<"handler failed">> /\ req[r].status = 500
    /\ \E i \in MainIdx(r) : log[i].level = "error"

C7_PersistenceGate ==
  \A r \in Active :
    LET q == req[r] IN
    /\ task[r].st # "none" =>
         /\ collection # "nil"
         /\ MainLines(r) = 1
         /\ q.hcalls = 1 /\ q.pc \in {"zapReturn", "done"}
    /\ task[r].inserts <= 1
    /\ Captured(q) /\ q.pc \in {"zapReturn", "done"} /\ MainLines(r) = 1
         /\ collection # "nil" => task[r].st # "none"
    /\ collection = "nil" => task[r].st = "none"

C7_Witness ==
  \E r \in Active :
    /\ task[r].st = "spawned" /\ req[r].pc = "zapReturn"
    /\ MainLines(r) = 1 /\ collection = "coll"

\* C8: a failed or timed-out insert leaves exactly one more line, at Error
\* level with the message "Error while inserting log to mongo"; a successful
\* one leaves none; the insert is called once; and in both cases the
\* request has its one main line, built from the record and the status as
\* they were, and ZapLogger returns nil.
C8_PersistenceFailureIsolated ==
  \A r \in Active :
    LET q == req[r] IN
    /\ task[r].st # "ended" => MongoLines(r) = 0
    /\ task[r].st = "ended" =>
         /\ task[r].inserts = 1
         /\ MongoLines(r) = (IF task[r].outcome = "ok" THEN 0 ELSE 1)
         /\ \A i \in MongoIdx(r) :
              /\ log[i].level = "error"
              /\ log[i].msg = "Error while inserting log to mongo"
         /\ MainLines(r) = 1
         /\ \A i \in MainIdx(r) :
              /\ log[i].fields = q.fields
              /\ FieldOf(log[i].fields, "status") = q.status
              /\ <<log[i].level, log[i].msg>> = Band(q.status)
         /\ q.ret \in {"none", "nil"}

C8_Witness ==
  \E r \in Active :
    /\ task[r].st = "ended"
    /\ task[r].outcome = "context deadline exceeded"
    /\ MongoLines(r) = 1 /\ MainLines(r) = 1
    /\ req[r].pc = "done" /\ req[r].ret = "nil"

\* C9: once ZapLogger is at its return statement it can return, and returns
\* nil, whatever the persistence goroutine is doing: not started, inserting
\* (for ever, perhaps), or ended in success, failure or timeout.
C9_ReturnNeverWaits ==
  \A r \in Active :
    /\ req[r].pc = "zapReturn" => ENABLED ZapReturn(r)
    /\ Decided(req[r]) /\ req[r].pc = "done" => req[r].ret = "nil"

C9_Witness ==
  \E r \in Active :
    /\ req[r].pc = "done" /\ req[r].ret = "nil"
    /\ task[r].st = "inserting"

\* The request id as C10 words it: the response header's value when it is
\* not empty, else the request header's value, else "".
C10_Expected(q) ==
  LET res == IF q.in.resHdr = <<>> THEN "" ELSE q.in.resHdr[1]
      inb == IF q.in.reqHdr = <<>> THEN "" ELSE q.in.reqHdr[1]
  IN IF res # "" THEN res ELSE IF inb # "" THEN inb ELSE ""

\* The position of a middleware in the chain (0 when it is not in it).
IndexOf(name) ==
  IF \E i \in DOMAIN chain : chain[i] = name
    THEN CHOOSE i \in DOMAIN chain : chain[i] = name
    ELSE 0

\* The request is past the named middleware's binding.
Past(q, name) == IndexOf(name) > 0 /\ (q.depth > IndexOf(name))

\* C10: the request id that OtelLoggerMiddleware and LoggerWithContext bind
\* is the response header's X-Request-ID when not empty, else the request
\* header's, else ""; in every case the handler is invoked.
C10_RequestIDResolution ==
  \A r \in Active :
    LET q == req[r] IN
    /\ Past(q, "otel") => q.gctx["request_id"] = Str(C10_Expected(q))
    /\ Past(q, "lwc") =>
         /\ q.gctx["request_id"] = Str(C10_Expected(q))
         /\ q.ectx["request_id"] = Str(C10_Expected(q))
    /\ q.pc = "done" => q.hcalls = 1

C10_Witness ==
  \E r \in Active :
    /\ chain = <<"otel", "lwc">> /\ req[r].pc = "done" /\ req[r].hcalls = 1
    /\ req[r].in.resHdr = <<"id2", "id1">> /\ req[r].in.reqHdr = <<"id1">>
    /\ req[r].ectx["request_id"] = Str("id2")

\* C11 as stated: the "request_id" field of every record is the response
\* header's X-Request-ID when not empty, else the request header's, else "".
C11_ResponseHeaderFirst ==
  \A r \in Active : \A i \in MainIdx(r) :
    LET res == HeaderGet(req[r].resHdr)
        inb == HeaderGet(req[r].in.reqHdr)
    IN FieldOf(log[i].fields, "request_id") = (IF res # "" THEN res ELSE inb)

\* C11 as amended: the "request_id" field of every record is the inbound
\* request header's X-Request-ID when not empty, else the response header's
\* value as the handler left it, else "".
C11_RequestHeaderFirst ==
  \A r \in Active : \A i \in MainIdx(r) :
    LET res == HeaderGet(req[r].resHdr)
        inb == HeaderGet(req[r].in.reqHdr)
    IN FieldOf(log[i].fields, "request_id") = (IF inb # "" THEN inb ELSE res)

C11_Witness ==
  \E r \in Active : \E i \in MainIdx(r) :
    /\ req[r].in.reqHdr = <<"id1">> /\ req[r].resHdr = <<"gen">>
    /\ FieldOf(log[i].fields, "request_id") = "id1"

HasLwc == \E i \in DOMAIN chain : chain[i] = "lwc"

\* C12: in a handler downstream of LoggerWithContext, the accessor on the
\* echo context and its twin on the request's context return the same value
\* for the trace id, the span id and the request id, and GetLogger and
\* GetLoggerFromContext return the same logger; with a valid span the trace
\* and span ids are the span's and not empty, with no valid span both are "".
C12_DualPath ==
  \A r \in Active :
    LET q == req[r] IN
    HasLwc /\ q.seen # NoSeen =>
      /\ q.seen.c = q.seen.ctx
      /\ q.seen.c.logger = LoggerWith(q.seen.c.trace_id, q.seen.c.span_id,
                                      q.seen.c.request_id)
      /\ q.seen.c.logger # GlobalLogger
      /\ IF IsValid(q.in.span)
           THEN /\ q.seen.c.trace_id = q.in.span.tid
                /\ q.seen.c.span_id = q.in.span.sid
                /\ q.seen.c.trace_id # "" /\ q.seen.c.span_id # ""
           ELSE q.seen.c.trace_id = "" /\ q.seen.c.span_id = ""

C12_Witness ==
  \E r \in Active :
    /\ chain = <<"lwc", "otel">> /\ req[r].seen # NoSeen
    /\ req[r].seen.ctx.trace_id = "0102" /\ req[r].seen.c.span_id = "0807"
    /\ req[r].seen.ctx.request_id = "id1"
    /\ req[r].seen.ctx.logger = req[r].seen.c.logger

IDKeys == {"trace_id", "span_id", "request_id"}

\* C13: an accessor that finds nothing under its key, or a value of another
\* type, returns "" (GetTraceID, GetSpanID, GetRequestID and their
\* ...FromContext twins) or the global logger (GetLogger and
\* GetLoggerFromContext); what a logger accessor returns is always a logger.
C13_GracefulAccessors ==
  \A r \in Active :
    LET q == req[r] IN
    q.seen # NoSeen =>
      /\ \A k \in IDKeys :
           /\ q.ectx[k].t # "string" => q.seen.c[k] = ""
           /\ q.gctx[k].t # "string" => q.seen.ctx[k] = ""
      /\ q.ectx["logger"].t # "logger" => q.seen.c.logger = GlobalLogger
      /\ q.gctx["logger"].t # "logger" => q.seen.ctx.logger = GlobalLogger
      /\ q.seen.c.logger.t = "logger" /\ q.seen.ctx.logger.t = "logger"

C13_Witness ==
  \E r \in Active :
    LET q == req[r] IN
    /\ q.seen # NoSeen
    /\ q.ectx["logger"] = Str("x") /\ q.gctx["logger"] = Absent
    /\ q.ectx["trace_id"] = Absent /\ q.gctx["trace_id"].t = "logger"
    /\ q.seen.c.logger = GlobalLogger /\ q.seen.ctx.logger = GlobalLogger
    /\ q.seen.c.trace_id = "" /\ q.seen.ctx.trace_id = ""

\* An upgrade request that ZapLogger has taken in.
Upgraded(q) == HasZap /\ q.in.upgrade /\ Entered(q)

\* C14: on an upgrade request ZapLogger calls the handler exactly once, with
\* the request body as it came (unread) and the response writer as it was (no
\* tee), and returns what the handler returned, an error included, without
\* giving it to the error handler; it emits no log line and starts no
\* persistence.
C14_UpgradePassthrough ==
  \A r \in Active :
    LET q == req[r]
        inbound == [data |-> q.in.body, err |-> q.in.rerr] IN
    Upgraded(q) =>
      /\ ~q.tee /\ q.bodyBytes = <<>> /\ q.capture = <<>>
      /\ ~q.hread.done => q.stream = inbound
      /\ q.hread.done => /\ q.hread.data = ReadAll(inbound).bytes
                         /\ q.hread.err = ReadAll(inbound).err
      /\ q.pc \in {"enter", "handler", "done"}
      /\ q.hcalls = (IF q.pc = "enter" THEN 0 ELSE 1)
      /\ q.pc = "done" => q.ret = q.err
      /\ q.ecalls = <<>>
      /\ \A i \in DOMAIN log : log[i].rid # r
      /\ task[r] = NoTask /\ mongo = <<>>

C14_Witness ==
  \E r \in Active :
    /\ Upgraded(req[r]) /\ req[r].pc = "done" /\ collection = "coll"
    /\ req[r].ret \in HandlerErrs /\ req[r].hcalls = 1
    /\ req[r].hread.done /\ req[r].hread.data = <<"a", "b">>
    /\ req[r].real # <<>> /\ log = <<>>

\* C15 as stated: an upgrade request that no other rule excludes has exactly
\* one main log line once ZapLogger has returned.
C15_UpgradeLoggedOnce ==
  \A r \in Active :
    LET q == req[r] IN
    Upgraded(q) /\ q.pc = "done" /\ ~SkipLog(q.in.path, q.status)
      => MainLines(r) = 1

\* C15 as amended: an upgrade request has no log line from ZapLogger at any
\* time, whatever its path and status; its bodies are not captured and its
\* handler has been called exactly once when ZapLogger returns.
C15_UpgradeNeverLogged ==
  \A r \in Active :
    LET q == req[r] IN
    Upgraded(q) =>
      /\ MainLines(r) = 0 /\ MongoLines(r) = 0
      /\ q.bodyBytes = <<>> /\ q.capture = <<>>
      /\ q.pc = "done" => q.hcalls = 1

C15_Witness ==
  \E r \in Active :
    /\ Upgraded(req[r]) /\ req[r].pc = "done" /\ req[r].hcalls = 1
    /\ req[r].in.path = "/test/:id" /\ req[r].status = 200
    /\ req[r].ret = "nil" /\ MainLines(r) = 0

DumpIdx(r) == {i \in DOMAIN log : log[i].rid = r /\ log[i].kind = "dump"}

\* C16: BodyDump emits no line when ENVIRONMENT is "production" or the route
\* path is "/healthz", whatever the response status, and exactly one "Body
\* dump" line in every other case.
C16_DumpGate ==
  \A r \in Active :
    LET q == req[r] IN
    /\ ~q.dump.called => DumpIdx(r) = {}
    /\ q.dump.called =>
         /\ Cardinality(DumpIdx(r)) =
              (IF environment = "production" \/ q.in.path = "/healthz"
                 THEN 0 ELSE 1)
         /\ \A i \in DumpIdx(r) :
              /\ log[i].msg = "Body dump: %s" /\ log[i].level = "info"
              /\ log[i].payload.path = q.in.path
              /\ log[i].payload.status = q.status

C16_Witness ==
  \E r \in Active :
    /\ req[r].dump.called /\ req[r].status = 200
    /\ environment = "production" /\ req[r].in.path = "/api"
    /\ log = <<>>

\* A body as the specification has it logged: newline, carriage return and
\* tab gone, every other byte in place.
IsControl(b) == b \in {"LF", "CR", "TAB"}
Kept(body) == SelectSeq(body, LAMBDA b : ~IsControl(b))
\* The same, a byte that is not valid UTF-8 read back as U+FFFD.
KeptAsText(body) ==
  [i \in DOMAIN Kept(body) |->
     IF Kept(body)[i] = "xFF" THEN "U+FFFD" ELSE Kept(body)[i]]

\* C17 as stated: whatever the bodies, the logged "request" and "response"
\* values are the inputs without their newlines, carriage returns and tabs,
\* every other byte kept in order; sanitizing a sanitized value changes
\* nothing.
C17_SanitizedBytes ==
  \A r \in Active : \A i \in DumpIdx(r) :
    LET d == req[r].dump IN
    /\ UnmarshalString(log[i].payload.request) = Kept(d.reqBody)
    /\ UnmarshalString(log[i].payload.response) = Kept(d.resBody)
    /\ Sanitize(Sanitize(d.reqBody)) = Sanitize(d.reqBody)
    /\ Sanitize(Sanitize(d.resBody)) = Sanitize(d.resBody)

\* C17 as amended: the same, where every byte kept that is not valid UTF-8
\* is logged as U+FFFD; so the logged value is the input without its
\* newlines, carriage returns and tabs exactly when what is kept is valid
\* UTF-8.
C17_SanitizedText ==
  \A r \in Active : \A i \in DumpIdx(r) :
    LET d == req[r].dump
        request == UnmarshalString(log[i].payload.request)
        response == UnmarshalString(log[i].payload.response) IN
    /\ request = KeptAsText(d.reqBody)
    /\ response = KeptAsText(d.resBody)
    /\ (\A k \in DOMAIN d.reqBody : d.reqBody[k] # "xFF")
         => request = Kept(d.reqBody)
    /\ Sanitize(Sanitize(d.reqBody)) = Sanitize(d.reqBody)
    /\ Sanitize(Sanitize(d.resBody)) = Sanitize(d.resBody)
    /\ Sanitize(request) = request /\ Sanitize(response) = response

C17_Witness ==
  \E r \in Active : \E i \in DumpIdx(r) :
    /\ req[r].dump.reqBody = <<"TAB", "quote", "TAB">>
    /\ req[r].dump.resBody = <<"xFF", "CR", "quote">>
    /\ UnmarshalString(log[i].payload.request) = <<"quote">>
    /\ UnmarshalString(log[i].payload.response) = <<"U+FFFD", "quote">>

\* C18: the "trace_id" and "span_id" fields of every record are the ids of
\* the request's span when that span is valid, and both "" when it is not,
\* with or without LoggerWithContext in the chain.
C18_SpanIDsInRecord ==
  \A r \in Active : \A i \in MainIdx(r) :
    LET sp == req[r].in.span
        trace_id == FieldOf(log[i].fields, "trace_id")
        span_id == FieldOf(log[i].fields, "span_id") IN
    IF IsValid(sp)
      THEN trace_id = sp.tid /\ span_id = sp.sid
      ELSE trace_id = "" /\ span_id = ""

\* The keys of a record's fields.
KeysOf(fields) == {fields[i].Key : i \in DOMAIN fields}
\* The value a field was logged with: the string of a string field, the
\* number of an integer field.
LoggedValue(f) == IF f.Type = "StringType" THEN f.String ELSE f.Integer

\* C19: the fields of a request are built before the health-check rule is
\* applied; the main line carries them as built, the goroutine is given the
\* same fields and keeps them whatever the request does afterwards, and the
\* document it hands to the store has the keys of the main line's fields,
\* each with the conversion of the logged value.
C19_SameSnapshot ==
  \A r \in Active :
    LET q == req[r] IN
    /\ Captured(q) /\ q.pc \in {"zapLog", "zapSpawn", "zapReturn", "done"}
         => /\ Len(q.fields) = Len(BuildFields(q))
            /\ q.pc = "zapLog" => q.fields = BuildFields(q)
    /\ \A i \in MainIdx(r) : log[i].fields = q.fields
    /\ task[r].st # "none" =>
         /\ MainLines(r) = 1
         /\ task[r].fields = q.fields
    /\ task[r].st \in {"inserting", "ended"} =>
         /\ DOMAIN task[r].doc = KeysOf(q.fields)
         /\ \A i \in DOMAIN q.fields :
              task[r].doc[q.fields[i].Key] = LoggedValue(q.fields[i])
    /\ \A j \in DOMAIN mongo :
         mongo[j].rid = r => mongo[j].doc = task[r].doc

C19_Witness ==
  \E r \in Active :
    /\ req[r].pc = "done" /\ MainLines(r) = 1
    /\ \E j \in DOMAIN mongo :
         /\ mongo[j].rid = r
         /\ mongo[j].doc["status"] = 500
         /\ mongo[j].doc["response"] = <<"a", "b", "a">>
         /\ mongo[j].doc["body"] = <<"a", "b">>

\* The bytes of the calls of a tee log that reached the capture buffer.
RECURSIVE CapturedBytes(_)
CapturedBytes(calls) ==
  IF calls = <<>> THEN <<>>
  ELSE (IF \E k \in DOMAIN Head(calls).sinks : Head(calls).sinks[k] = "capture"
          THEN Head(calls).b ELSE <<>>) \o CapturedBytes(Tail(calls))

\* C20 as stated: every Write call through the tee writes its bytes to the
\* real writer first and to the capture buffer second, both whatever
\* happens, so that the buffer has the bytes of every call, those of a call
\* the real writer failed or cut short included.
C20_TeeUnconditional ==
  \A r \in Active :
    LET q == req[r] IN
    Captured(q) =>
      /\ \A k \in DOMAIN q.wlog : q.wlog[k].sinks = <<"real", "capture">>
      /\ q.capture = q.written

\* C20 as amended: every Write call through the tee writes its bytes to the
\* real writer first; the capture buffer is written second, and only when
\* the real writer took the whole call without error; the buffer holds the
\* bytes of those calls and nothing of a call the real writer failed or cut
\* short.
C20_TeeRealFirst ==
  \A r \in Active :
    LET q == req[r] IN
    Captured(q) =>
      /\ Len(q.wlog) = q.nwrites
      /\ \A k \in DOMAIN q.wlog :
           LET w == q.wlog[k] IN
           /\ Head(w.sinks) = "real"
           /\ w.n = Len(w.b) => w.sinks = <<"real", "capture">>
           /\ w.n < Len(w.b) => w.sinks = <<"real">>
      /\ q.capture = CapturedBytes(q.wlog)

C20_Witness ==
  \E r \in Active :
    LET q == req[r] IN
    /\ Captured(q) /\ Len(q.wlog) = 2
    /\ q.wlog[1].n = 0 /\ q.wlog[1].sinks = <<"real">>
    /\ q.wlog[2].n = 2 /\ q.wlog[2].sinks = <<"real", "capture">>
    /\ q.capture = <<"b", "a">> /\ q.written = <<"a", "b", "a">>

\* What a request's record must hold of the request's own.
OwnValues(q) ==
  [status |-> q.status, body |-> q.in.body, response |-> q.capture,
   request_id |-> HeaderGet(q.in.reqHdr), span_id |-> q.in.span.sid,
   path |-> q.in.path]

\* C21: with requests running at once through one ZapLogger, the main line
\* and the stored document of each hold that request's own status, bodies
\* and identifiers; every logged request with a collection configured gets
\* its own persistence attempt, and an attempt can always take its next step
\* whatever the attempts of the other requests are doing.
C21_CrossRequestIsolation ==
  \A r \in Active :
    LET q == req[r]
        own == OwnValues(q) IN
    /\ \A i \in MainIdx(r) : \A k \in DOMAIN own :
         FieldOf(log[i].fields, k) = own[k]
    /\ task[r].st \in {"inserting", "ended"} =>
         \A k \in DOMAIN own : task[r].doc[k] = own[k]
    /\ \A j \in DOMAIN mongo : \A k \in DOMAIN own :
         mongo[j].rid = r => mongo[j].doc[k] = own[k]
    /\ Captured(q) /\ q.pc \in {"zapReturn", "done"} /\ MainLines(r) = 1
         /\ collection # "nil" => task[r].st # "none" /\ task[r].inserts <= 1
    /\ task[r].st = "spawned" => ENABLED TaskInsert(r)
    /\ task[r].st = "inserting" =>
         \A o \in InsertOutcomes : ENABLED TaskFinish(r, o)

C21_Witness ==
  /\ task["r1"].st = "inserting" /\ task["r2"].st = "inserting"
  /\ task["r1"].doc["body"] = <<"a">> /\ task["r2"].doc["body"] = <<"a", "b">>
  /\ task["r1"].doc["request_id"] = "id1"
  /\ task["r2"].doc["request_id"] = "id2"
  /\ task["r1"].doc["status"] = 200 /\ task["r2"].doc["status"] = 500

\* The goroutine of a request has ended as C22 says it ends: the deadline
\* context cancelled, and no line for a success, one Error line for a
\* failure or an expired deadline.
TaskEnded(r) ==
  /\ task[r].st = "ended" /\ ~task[r].ctxOpen /\ task[r].inserts = 1
  /\ task[r].outcome \in InsertOutcomes
  /\ MongoLines(r) = (IF task[r].outcome = "ok" THEN 0 ELSE 1)
  /\ \A i \in MongoIdx(r) : log[i].level = "error"

\* C22: with a store that honours the deadline, every persistence attempt
\* that was started ends, in a success (no line) or in a failure, deadline
\* expiry included (one Error line); its goroutine is then over and its
\* deadline context released.
C22_AttemptsTerminate ==
  \A r \in Reqs :
    (task[r].st \in {"spawned", "inserting"}) ~> TaskEnded(r)

C22_Witness ==
  /\ TaskEnded("r1") /\ task["r1"].outcome = "context deadline exceeded"
  /\ TaskEnded("r2") /\ task["r2"].outcome = "ok"
  /\ req["r1"].ret = "nil" /\ req["r2"].ret = "nil"

\* C23: OtelLoggerMiddleware sets the attribute "request.id" of the span to
\* the request id it resolved if and only if the span is valid; with or
\* without a valid span the request id is in the request's context under its
\* key, the handler is called exactly once, and what the handler returned is
\* returned as it is.
C23_BestEffortAttribute ==
  \A r \in Active :
    LET q == req[r]
        requestID == OtelRequestID(q.in.resHdr, q.in.reqHdr) IN
    /\ ~Past(q, "otel") => q.spanAttr = Absent
    /\ Past(q, "otel") =>
         /\ q.spanAttr = (IF IsValid(q.in.span) THEN Str(requestID)
                                                ELSE Absent)
         /\ q.gctx["request_id"] = Str(requestID)
         /\ q.pc \in {"handler", "done"} => q.hcalls = 1
         /\ q.pc = "done" /\ ~HasZap => q.ret = q.err

C23_Witness ==
  \E r \in Active :
    /\ chain = <<"otel">> /\ req[r].pc = "done"
    /\ req[r].in.span = [tid |-> "0102", sid |-> ZeroSpanID]
    /\ req[r].in.reqHdr = <<"id1">> /\ req[r].in.resHdr = <<"">>
    /\ req[r].spanAttr = Absent /\ req[r].gctx["request_id"] = Str("id1")
    /\ req[r].hcalls = 1 /\ req[r].ret \in HandlerErrs

\* C24: with the chain ZapLogger, OtelLoggerMiddleware, LoggerWithContext,
\* the "request_id", "trace_id" and "span_id" fields of a request's record
\* are what GetRequestID, GetTraceID and GetSpanID returned in its handler,
\* whatever the headers (one the handler set included) and the span.
C24_LogContextAgreement ==
  \A r \in Active :
    LET q == req[r] IN
    chain = <<"zap", "otel", "lwc">> /\ q.seen # NoSeen =>
      \A i \in MainIdx(r) : \A k \in IDKeys :
        FieldOf(log[i].fields, k) = q.seen.c[k]

\* The log lines of a request, main or not.
LinesOf(r) == Cardinality({i \in DOMAIN log : log[i].rid = r})

\* C25: on every path through ZapLogger the handler is called at most once,
\* and exactly once by the time ZapLogger has returned unless the body read
\* failed; a request has at most one main line, and at most two lines in
\* all, the second being the one Error line of a failed insert.
C25_EventBounds ==
  \A r \in Active :
    LET q == req[r]
        readFailed == HasZap /\ ~q.in.upgrade /\ q.in.rerr # "" IN
    /\ q.hcalls <= 1
    /\ q.pc = "done" => q.hcalls = (IF readFailed THEN 0 ELSE 1)
    /\ MainLines(r) <= 1
    /\ MongoLines(r) <= 1
    /\ LinesOf(r) = MainLines(r) + MongoLines(r)
    /\ LinesOf(r) <= 2
    /\ MongoLines(r) = 1 => MainLines(r) = 1

C25_Witness ==
  \E r \in Active :
    /\ req[r].pc = "done" /\ req[r].hcalls = 1
    /\ MainLines(r) = 1 /\ MongoLines(r) = 1 /\ LinesOf(r) = 2
    /\ req[r].status = 599

\* The field that decides a key's entry: the last one with that key.
LastField(fields, key) ==
  fields[CHOOSE i \in DOMAIN fields :
           /\ fields[i].Key = key
           /\ \A j \in DOMAIN fields : fields[j].Key = key => j <= i]

\* The value the field was built from, for an integer field.
IntegerOf(f) ==
  IF f.Type = "Uint64Type" THEN ToUint64(f.Integer) ELSE f.Integer

\* What C26 has a field stored as.
C26_Expected(f) ==
  IF f.Type = "StringType" THEN [kind |-> "string", value |-> f.String]
  ELSE IF f.Type \in IntegerTypes
    THEN [kind |-> "int64", value |-> IntegerOf(f)]
  ELSE IF f.Type = "BoolType" THEN [kind |-> "bool", value |-> f.Integer # 0]
  ELSE IF f.Type = "DurationType"
    THEN [kind |-> "int64", value |-> f.Integer]
  ELSE IF f.Type = "TimeType"
    THEN [kind |-> "string", value |-> FormatRFC3339(f.Integer)]
  ELSE IF f.Type = "ReflectType"
    THEN [kind |-> "interface", value |-> f.Interface]
  ELSE [kind |-> "string", value |-> f.String]

\* C26: the result of zapFieldsToMap has one entry per distinct key, and the
\* value of each follows from the field's type: a string as it is; an
\* integer of any signed or unsigned type as a 64-bit integer of the same
\* value; a boolean as true exactly when the stored integer is not zero; a
\* duration as its count of nanoseconds; a time as an RFC 3339 string; a
\* reflected value as it is; a field of any other type as its string value.
C26_Conversion ==
  \A r \in Reqs :
    task[r].st \in {"inserting", "ended"} =>
      /\ DOMAIN task[r].doc = KeysOf(task[r].fields)
      /\ \A k \in DOMAIN task[r].doc :
           LET f == LastField(task[r].fields, k) IN
           /\ zapFieldConverted(f).kind = C26_Expected(f).kind
           /\ task[r].doc[k] = C26_Expected(f).value

====
